---- MODULE Spec2Model ----
(***************************************************************************)
(* Diagonal sudoku solver (solution.py): unit topology, the three          *)
(* propagation strategies, reduce_puzzle and the depth-first search, as a  *)
(* state machine over the interpreter's heap of dictionaries and the call  *)
(* stack of search.                                                        *)
(*                                                                         *)
(* A box 'A1'..'I9' is its position 1..81 in the list `boxes` (row-major), *)
(* which is also the lexicographic order of the box names.  A candidate    *)
(* string is the set of its digits: grid2values produces '123456789' or a  *)
(* single digit, and str.replace(d, '') keeps the remaining digits in      *)
(* ascending order, so a candidate string is always the ascending listing  *)
(* of its digit set, and '' is the empty set.                              *)
(***************************************************************************)
EXTENDS Integers, Sequences, FiniteSets, TLC

VARIABLES
    grid,        \* the grid given to solve(): box -> 0 ('.') or a digit
    order,       \* iteration order of Python sets in this process (hash seed)
    heap,        \* the dictionaries allocated so far: id -> (box -> candidates)
    values,      \* search's local `values`: the id of a dictionary on the heap
    chosen_box,  \* search's local `chosen_box` (0 before it is assigned)
    todo,        \* the values of `for value in values[chosen_box]` still to try
    stack,       \* the suspended callers of search, outermost first
    pc,          \* position of the running call
    attempt,     \* the value being returned by the call that last returned
    solved_values_before,  \* reduce_puzzle's local, set at line 120
    solved_values_after,   \* reduce_puzzle's local, set at line 126
    run,         \* 1 for the first solve() of the grid, 2 for the second
    first        \* what the first solve() returned, and its set order

vars == <<grid, order, heap, values, chosen_box, todo, stack, pc, attempt,
          solved_values_before, solved_values_after, run, first>>

----------------------------------------------------------------------------
(* Bounds of the explored inputs *)

\* digits 1..PoolSize are the ones a puzzle may leave blank
PoolSize == 5
\* a puzzle leaves at most MaxBlank digits blank (every box holding them)
MaxBlank == 4
\* extra givens are written into the first ClueBoxes blank boxes only
ClueBoxes == 5
\* at most MaxClues extra givens are written
MaxClues == 2

----------------------------------------------------------------------------
(* utils.py: rows, cols, boxes, cross *)

rows == 1..9
cols == 1..9
digits == 1..9

\* the box named rows[r] + cols[c]
box(r, c) == (r - 1) * 9 + c

boxes == 1..81

\* cross(A, B) = [x + y for x in A for y in B], A and B given as sequences
cross(A, B) ==
    [k \in 1..(Len(A) * Len(B)) |->
        box(A[((k - 1) \div Len(B)) + 1], B[((k - 1) % Len(B)) + 1])]

Range(s) == {s[k] : k \in DOMAIN s}

Reverse(s) == [k \in 1..Len(s) |-> s[Len(s) + 1 - k]]

----------------------------------------------------------------------------
(* solution.py lines 5-15: the unit topology *)

row_units == [r \in 1..9 |-> cross(<<r>>, <<1, 2, 3, 4, 5, 6, 7, 8, 9>>)]
column_units == [c \in 1..9 |-> cross(<<1, 2, 3, 4, 5, 6, 7, 8, 9>>, <<c>>)]
square_units ==
    [k \in 1..9 |->
        LET rs == <<<<1, 2, 3>>, <<4, 5, 6>>, <<7, 8, 9>>>>[((k - 1) \div 3) + 1]
            cs == <<<<1, 2, 3>>, <<4, 5, 6>>, <<7, 8, 9>>>>[((k - 1) % 3) + 1]
        IN  cross(rs, cs)]

\* boxes[::10] and boxes[8:73:8] (0-based slices of the 81 boxes)
diagonal_units ==
    << [k \in 1..9 |-> 1 + 10 * (k - 1)], [k \in 1..9 |-> 9 + 8 * (k - 1)] >>

unitlist == row_units \o column_units \o square_units \o diagonal_units

units == [s \in boxes |-> {u \in Range(unitlist) : s \in Range(u)}]

peers == [s \in boxes |-> (UNION {Range(u) : u \in units[s]}) \ {s}]

----------------------------------------------------------------------------
(* Iteration order of a Python set of boxes.  The order depends on the     *)
(* process's string hashing; two orders stand for it.                      *)

Orders == {"asc", "desc"}

boxes_asc == [k \in 1..81 |-> k]

boxes_in(o) == IF o = "asc" THEN boxes_asc ELSE Reverse(boxes_asc)

\* list(S) for a set S of boxes
SetOrder(S, o) ==
    LET member(b) == b \in S
    IN  SelectSeq(boxes_in(o), member)

\* the boxes of the units of a box, the box itself among them
unit_boxes_list == [o \in Orders |-> [s \in boxes |-> SetOrder(peers[s] \cup {s}, o)]]

peersList == [o \in Orders |-> [s \in boxes |-> SetOrder(peers[s], o)]]

\* every pair of peers as a tuple, ascending by (smaller box, larger box)
peer_pairs_asc ==
    LET code(k) == <<((k - 1) \div 81) + 1, ((k - 1) % 81) + 1>>
        is_pair(k) == code(k)[1] < code(k)[2] /\ code(k)[2] \in peers[code(k)[1]]
        ks == SelectSeq([k \in 1..(81 * 81) |-> k], is_pair)
    IN  [i \in 1..Len(ks) |-> code(ks[i])]

\* the pairs as list(set of frozensets) and tuple(frozenset) yield them
peer_pairs ==
    [o \in Orders |->
        IF o = "asc" THEN peer_pairs_asc
        ELSE LET r == Reverse(peer_pairs_asc)
             IN  [i \in 1..Len(r) |-> <<r[i][2], r[i][1]>>]]

----------------------------------------------------------------------------
(* utils.py: assign_value stores the new candidate string in the dict     *)

assign_value(vals, b, value) == [vals EXCEPT ![b] = value]

\* Sequencing: F applied to the value of x.  x is evaluated once, before F.
Then(x, F(_)) == CHOOSE r \in {F(v) : v \in {x}} : TRUE

\* A for loop: acc = body(acc, k) for k = lo, ..., hi in that order.  The
\* range is split in halves so that the nesting depth stays logarithmic.
RECURSIVE Loop(_, _, _, _)
Loop(body(_, _), acc, lo, hi) ==
    IF lo > hi THEN acc
    ELSE IF lo = hi THEN body(acc, lo)
    ELSE Then((lo + hi) \div 2,
              LAMBDA mid : Then(Loop(body, acc, lo, mid),
                                LAMBDA done : Loop(body, done, mid + 1, hi)))

solved_count(vals) == Cardinality({b \in boxes : Cardinality(vals[b]) = 1})

----------------------------------------------------------------------------
(* solution.py lines 60-79: eliminate *)

\* lines 75-76: the loop over the peers ps of a solved box
eliminate_peers(vals, ps, box_value) ==
    Loop(LAMBDA v, k : assign_value(v, ps[k], v[ps[k]] \ box_value),
         vals, 1, Len(ps))

\* lines 72-78: the body of the loop for one box
eliminate_box(vals, b, o) ==
    IF Cardinality(vals[b]) = 1
    THEN eliminate_peers(vals, peersList[o][b], vals[b])
    ELSE vals

\* line 71: the loop over the boxes of the dict, in dict order
eliminate(vals, o) ==
    Loop(LAMBDA v, b : eliminate_box(v, b, o), vals, 1, 81)

----------------------------------------------------------------------------
(* solution.py lines 82-102: only_choice *)

\* lines 99-101: one digit of one unit
only_choice_value(vals, unit, value) ==
    Then({b \in Range(unit) : value \in vals[b]},
         LAMBDA boxes_with_value :
             IF Cardinality(boxes_with_value) = 1
             THEN assign_value(vals, CHOOSE b \in boxes_with_value : TRUE, {value})
             ELSE vals)

\* line 98: the loop over the digits '1'..'9' for one unit
only_choice_unit(vals, unit) ==
    Loop(LAMBDA v, value : only_choice_value(v, unit, value), vals, 1, 9)

\* line 97: the loop over unitlist
only_choice(vals) ==
    Loop(LAMBDA v, k : only_choice_unit(v, unitlist[k]), vals, 1, Len(unitlist))

----------------------------------------------------------------------------
(* solution.py lines 17-57: naked_twins *)

\* line 26
doubles(vals) == {b \in boxes : Cardinality(vals[b]) = 2}

\* lines 30-34: the set of frozensets {box, twin}
twins_set(vals) ==
    UNION {{{b, twin} : twin \in {t \in peers[b] : vals[b] = vals[t]}} : b \in doubles(vals)}

Min(S) == CHOOSE x \in S : \A y \in S : x <= y
Max(S) == CHOOSE x \in S : \A y \in S : x >= y

\* only the first pair of list(twins)
twins_first(vals, o) ==
    Then(twins_set(vals),
         LAMBDA tw : Then(SelectSeq(peer_pairs[o], LAMBDA p : {p[1], p[2]} \in tw),
                          LAMBDA l : IF l = <<>> THEN l ELSE <<l[1]>>))

\* line 35: list(twins) and tuple(pair), in the set iteration order o
twins_list(vals, o) ==
    Then(twins_set(vals),
         LAMBDA tw : SelectSeq(peer_pairs[o], LAMBDA p : {p[1], p[2]} \in tw))

\* the peers of either twin in place of the peers of both
either_peers_of(twin1, twin2) == peers[twin1] \cup peers[twin2]

\* line 43
common_peers_of(twin1, twin2) == peers[twin1] \cap peers[twin2]

\* only the first of the two twin values is listed
replace_first_for_box(vals, twin1, b) ==
    IF Min(vals[twin1]) \in vals[b] THEN <<(<<b, Min(vals[twin1])>>)>> ELSE <<>>

\* lines 45-50: what one common peer adds to values_to_replace
replace_for_box(vals, twin1, b) ==
    LET first_value == Min(vals[twin1])
        second_value == Max(vals[twin1])
    IN  (IF first_value \in vals[b] THEN <<(<<b, first_value>>)>> ELSE <<>>)
        \o (IF second_value \in vals[b] THEN <<(<<b, second_value>>)>> ELSE <<>>)

\* lines 42-50: what one pair of twins appends to values_to_replace
replace_for_pair(vals, todel, pair, o) ==
    Then(SetOrder(common_peers_of(pair[1], pair[2]), o),
         LAMBDA common_peers :
             Loop(LAMBDA l, k : l \o replace_for_box(vals, pair[1], common_peers[k]),
                  todel, 1, Len(common_peers)))

\* lines 41-50: the list values_to_replace for the pairs tw
values_to_replace(vals, tw, o) ==
    Loop(LAMBDA l, k : replace_for_pair(vals, l, tw[k], o), <<>>, 1, Len(tw))

\* lines 54-55: the separate loop that removes the listed values
replace_all(vals, todel) ==
    Loop(LAMBDA v, k : assign_value(v, todel[k][1], v[todel[k][1]] \ {todel[k][2]}),
         vals, 1, Len(todel))

naked_twins(vals, o) ==
    Then(twins_list(vals, o),
         LAMBDA tw : Then(values_to_replace(vals, tw, o),
                          LAMBDA todel : replace_all(vals, todel)))

----------------------------------------------------------------------------
(* solution.py lines 105-134: reduce_puzzle *)

\* lines 122-124: one pass of the while loop
reduce_pass(vals, o) ==
    Then(eliminate(vals, o),
         LAMBDA eliminated : Then(only_choice(eliminated),
                                  LAMBDA chosen : naked_twins(chosen, o)))

\* the loop ends only on a lower count
stalled_on_drop(before, after) == before > after

\* line 128
stalled(before, after) == before = after

\* lines 130-134: '' in sanity_check
sanity_fails(vals) == \E b \in boxes : vals[b] = {}

----------------------------------------------------------------------------
(* solution.py lines 137-173: search *)

\* no box is empty
is_nonempty(vals) == \A b \in boxes : vals[b] # {}

\* line 156
is_solved(vals) == \A b \in boxes : Cardinality(vals[b]) = 1

\* line 160: (box, len) for the boxes of the dict with more than one value
boxes_lengths(vals) ==
    Then(SelectSeq(boxes_asc, LAMBDA b : Cardinality(vals[b]) > 1),
         LAMBDA bs : [k \in 1..Len(bs) |-> <<bs[k], Cardinality(vals[bs[k]])>>])

\* line 161: sorted(boxes_lengths, key=lambda box: box[1]), a stable sort
sorted_by_length(bl) ==
    LET of_length(n) == LET has(x) == x[2] = n IN SelectSeq(bl, has)
    IN  of_length(2) \o of_length(3) \o of_length(4) \o of_length(5)
        \o of_length(6) \o of_length(7) \o of_length(8) \o of_length(9)

\* min() of a list of (box, len) tuples: tuples compare by box name first
tuple_min(s) ==
    CHOOSE x \in Range(s) :
        \A y \in Range(s) : x[1] < y[1] \/ (x[1] = y[1] /\ x[2] <= y[2])

\* line 162
choose_box(vals) ==
    Then(boxes_lengths(vals),
         LAMBDA bl : Then(sorted_by_length(bl), LAMBDA s : tuple_min(s)[1]))

\* line 167: the characters of values[chosen_box], first to last
string_chars(value) ==
    LET present(d) == d \in value
    IN  SelectSeq(<<1, 2, 3, 4, 5, 6, 7, 8, 9>>, present)

\* new_grid = values, without the copy
dict_alias(h, id) == <<h, id>>

\* line 168: values.copy() allocates a new dictionary with the same items
dict_copy(h, id) == <<Append(h, h[id]), Len(h) + 1>>

\* line 172: `if attempt:` (False, None and the empty dict are falsy)
truthy(a) == a.kind = "dict"

False == [kind |-> "False", ref |-> 0]
None == [kind |-> "None", ref |-> 0]
Dict(id) == [kind |-> "dict", ref |-> id]

----------------------------------------------------------------------------
(* the grids given to solve *)

\* the solved grid solve() returns for diag_sudoku_grid (line 193)
Solution ==
    << 2,6,7,9,4,5,3,8,1,  8,5,3,7,1,6,2,4,9,  4,9,1,8,2,3,5,7,6,
       5,7,6,4,3,8,1,9,2,  3,8,4,1,9,2,6,5,7,  1,2,9,6,5,7,4,3,8,
       6,4,2,3,7,9,8,1,5,  9,3,5,2,8,1,7,6,4,  7,1,8,5,6,4,9,2,3 >>

\* utils.py grid2values: '.' becomes '123456789', a digit stays
grid2values(g) == [b \in boxes |-> IF g[b] = 0 THEN digits ELSE {g[b]}]

\* the sets of digits a puzzle leaves blank: up to MaxBlank consecutive digits
BlankSets ==
    {lo..hi : lo \in 1..PoolSize, hi \in 1..PoolSize} \cap
    {D \in SUBSET (1..PoolSize) : D # {} /\ Cardinality(D) <= MaxBlank}

\* the first ClueBoxes boxes holding a digit of D
clue_boxes(D) ==
    LET blank(b) == Solution[b] \in D
        bs == SelectSeq(boxes_asc, blank)
    IN  {bs[k] : k \in 1..(IF Len(bs) < ClueBoxes THEN Len(bs) ELSE ClueBoxes)}

\* the solved grid with the digits of D left blank and the smallest digit of D
\* written into the boxes of C
Puzzle(D, C) ==
    [b \in boxes |-> IF b \in C THEN Min(D)
                     ELSE IF Solution[b] \in D THEN 0 ELSE Solution[b]]

Grids ==
    UNION {{Puzzle(D, C) : C \in {X \in SUBSET clue_boxes(D) : Cardinality(X) <= MaxClues}} :
           D \in BlankSets}

Unset == [kind |-> "unset", board |-> <<>>, order |-> "unset"]

\* solve(grid): lines 187-188 up to the call of search
Init ==
    /\ grid \in Grids
    /\ order \in Orders
    /\ heap = <<grid2values(grid)>>
    /\ values = 1
    /\ chosen_box = 0
    /\ todo = <<>>
    /\ stack = <<>>
    /\ pc = "reduce"
    /\ attempt = None
    /\ solved_values_before = 0
    /\ solved_values_after = 0
    /\ run = 1
    /\ first = Unset

\* lines 119-128: one iteration of reduce_puzzle's while loop
Pass ==
    /\ pc = "reduce"
    /\ solved_values_before' = solved_count(heap[values])
    /\ heap' = [heap EXCEPT ![values] = reduce_pass(heap[values], order)]
    /\ solved_values_after' = solved_count(heap'[values])
    /\ pc' = IF stalled(solved_values_before', solved_values_after')
             THEN "reduced" ELSE "reduce"
    /\ UNCHANGED <<grid, order, values, chosen_box, todo, stack, attempt, run, first>>

\* lines 130-132 and 152-153: reduce_puzzle returns False, and so does search
Contradiction ==
    /\ pc = "reduced"
    /\ sanity_fails(heap[values])
    /\ attempt' = False
    /\ pc' = "return"
    /\ UNCHANGED <<solved_values_before, solved_values_after, grid, order, heap, values, chosen_box, todo, stack, run, first>>

\* lines 133-134 and 156-157: the reduced board is solved and is returned
Solved ==
    /\ pc = "reduced"
    /\ ~sanity_fails(heap[values])
    /\ is_solved(heap[values])
    /\ attempt' = Dict(values)
    /\ pc' = "return"
    /\ UNCHANGED <<solved_values_before, solved_values_after, grid, order, heap, values, chosen_box, todo, stack, run, first>>

\* lines 160-167: the box to branch on and the values to try
Choose ==
    /\ pc = "reduced"
    /\ ~sanity_fails(heap[values])
    /\ ~is_solved(heap[values])
    /\ chosen_box' = choose_box(heap[values])
    /\ todo' = string_chars(heap[values][chosen_box'])
    /\ pc' = "loop"
    /\ UNCHANGED <<solved_values_before, solved_values_after, grid, order, heap, values, stack, attempt, run, first>>

\* lines 167-171: the next value is set in a copy, and search is called on it
Branch ==
    /\ pc = "loop"
    /\ todo # <<>>
    /\ LET c == dict_copy(heap, values)
           new_grid == c[2]
       IN  /\ heap' = [c[1] EXCEPT ![new_grid][chosen_box] = {Head(todo)}]
           /\ values' = new_grid
    /\ stack' = Append(stack, [values |-> values, chosen_box |-> chosen_box,
                               todo |-> Tail(todo)])
    /\ chosen_box' = 0
    /\ todo' = <<>>
    /\ solved_values_before' = 0
    /\ solved_values_after' = 0
    /\ pc' = "reduce"
    /\ UNCHANGED <<grid, order, attempt, run, first>>

\* after line 173: the loop is over and the function ends without a return
Exhausted ==
    /\ pc = "loop"
    /\ todo = <<>>
    /\ attempt' = None
    /\ pc' = "return"
    /\ UNCHANGED <<solved_values_before, solved_values_after, grid, order, heap, values, chosen_box, todo, stack, run, first>>

\* lines 171-173: the caller gets a truthy attempt and returns it
ReturnAttempt ==
    /\ pc = "return"
    /\ stack # <<>>
    /\ truthy(attempt)
    /\ values' = stack[Len(stack)].values
    /\ chosen_box' = stack[Len(stack)].chosen_box
    /\ todo' = stack[Len(stack)].todo
    /\ stack' = SubSeq(stack, 1, Len(stack) - 1)
    /\ pc' = "return"
    /\ UNCHANGED <<solved_values_before, solved_values_after, grid, order, heap, attempt, run, first>>

\* lines 171-172 and 167: the caller gets a falsy attempt and goes on
NextValue ==
    /\ pc = "return"
    /\ stack # <<>>
    /\ ~truthy(attempt)
    /\ values' = stack[Len(stack)].values
    /\ chosen_box' = stack[Len(stack)].chosen_box
    /\ todo' = stack[Len(stack)].todo
    /\ stack' = SubSeq(stack, 1, Len(stack) - 1)
    /\ pc' = "loop"
    /\ UNCHANGED <<solved_values_before, solved_values_after, grid, order, heap, attempt, run, first>>

\* lines 188-189: the outermost search returns to solve, which returns it
Finish ==
    /\ pc = "return"
    /\ stack = <<>>
    /\ pc' = "done"
    /\ UNCHANGED <<solved_values_before, solved_values_after, grid, order, heap, values, chosen_box, todo, stack, attempt, run, first>>

\* what solve returned: the kind of value and, for a dict, its items
Returned ==
    [kind |-> attempt.kind,
     board |-> IF attempt.kind = "dict" THEN heap[attempt.ref] ELSE <<>>,
     order |-> order]

\* lines 193-195 run again: a second process solves the same grid
Rerun ==
    /\ pc = "done"
    /\ run = 1
    /\ first' = Returned
    /\ run' = 2
    /\ order' \in Orders
    /\ heap' = <<grid2values(grid)>>
    /\ values' = 1
    /\ chosen_box' = 0
    /\ todo' = <<>>
    /\ stack' = <<>>
    /\ pc' = "reduce"
    /\ attempt' = None
    /\ solved_values_before' = 0
    /\ solved_values_after' = 0
    /\ UNCHANGED grid

Next ==
    \/ Pass
    \/ Contradiction
    \/ Solved
    \/ Choose
    \/ Branch
    \/ Exhausted
    \/ ReturnAttempt
    \/ NextValue
    \/ Finish

Spec == Init /\ [][Next]_vars

\* the interpreter keeps executing the program until solve has returned
FairSpec == Spec /\ WF_vars(Next)

NextTwice == Next \/ Rerun

SpecTwice == Init /\ [][NextTwice]_vars

----------------------------------------------------------------------------
(* What the claims speak of *)

\* the digit of a solved box
digit_of(vals, b) == CHOOSE d \in vals[b] : TRUE

\* every box holds one digit and every unit holds each digit exactly once
valid_solution(vals) ==
    /\ \A b \in boxes : Cardinality(vals[b]) = 1
    /\ \A k \in 1..Len(unitlist) : \A d \in digits :
           Cardinality({b \in Range(unitlist[k]) : vals[b] = {d}}) = 1

\* a[b] = 0 for the boxes not assigned yet: can the boxes i..81 be assigned a
\* candidate each so that no two peers hold the same digit?
RECURSIVE extends_to_solution(_, _, _)
extends_to_solution(vals, a, i) ==
    IF i > 81 THEN TRUE
    ELSE IF a[i] # 0 THEN extends_to_solution(vals, a, i + 1)
    ELSE \E d \in vals[i] :
             /\ \A p \in peers[i] : a[p] # d
             /\ extends_to_solution(vals, [a EXCEPT ![i] = d], i + 1)

\* some choice of one candidate per box satisfies all 29 units (the nine
\* boxes of a unit are pairwise peers, so distinct digits in peers is the same
\* as each digit once per unit)
has_completion(vals) ==
    /\ \A b \in boxes : vals[b] # {}
    /\ LET a == [b \in boxes |-> IF Cardinality(vals[b]) = 1 THEN digit_of(vals, b) ELSE 0]
       IN  /\ \A b \in boxes : a[b] # 0 => \A p \in peers[b] : a[p] # a[b]
           /\ extends_to_solution(vals, a, 1)

total_candidates(vals) == Cardinality({bd \in boxes \X digits : bd[2] \in vals[bd[1]]})

\* the board the returning call of search was given
call_argument ==
    IF stack = <<>> THEN grid2values(grid)
    ELSE LET f == stack[Len(stack)]
             tried == heap[f.values][f.chosen_box] \ Range(f.todo)
         IN  [heap[f.values] EXCEPT ![f.chosen_box] = {Max(tried)}]

\* the board naked_twins is given in the next pass
before_twins == Then(eliminate(heap[values], order), LAMBDA v : only_choice(v))

----------------------------------------------------------------------------
(* C1: a board returned as the solution has one candidate in every box and *)
(* each digit exactly once in each of the 29 units.                        *)
C1_ReturnedBoardIsSolution ==
    (pc \in {"return", "done"} /\ attempt.kind = "dict")
        => valid_solution(heap[attempt.ref])

C1_Witness ==
    /\ pc = "done"
    /\ attempt.kind = "dict"
    /\ attempt.ref > 2
    /\ valid_solution(heap[attempt.ref])

(* C2: when a call of search reports failure, the board it was given has   *)
(* no assignment of one candidate per box that satisfies all the units;    *)
(* in particular a failed solve means the grid has no solution.            *)
C2_FailureMeansUnsolvable ==
    (pc \in {"return", "done"} /\ ~truthy(attempt)) => ~has_completion(call_argument)

C2_Witness ==
    /\ pc = "done"
    /\ attempt = None
    /\ Len(heap) > 2
    /\ ~has_completion(grid2values(grid))

(* C3: on every failure path the value returned is False.                  *)
C3_FailureIsFalse ==
    (pc \in {"return", "done"} /\ ~truthy(attempt)) => attempt = False

(* C4: search terminates: solve returns; every pass that does not end the  *)
(* loop of reduce_puzzle leaves fewer candidates on the board, and every   *)
(* recursive call is given fewer candidates than its caller holds.         *)
C4_Decreases ==
    /\ (pc = "reduce" /\ pc' = "reduce")
           => total_candidates(heap'[values]) < total_candidates(heap[values])
    /\ (pc = "loop" /\ pc' = "reduce")
           => /\ Cardinality(heap[values][chosen_box]) > 1
              /\ Cardinality(heap'[values'][chosen_box]) = 1
              /\ total_candidates(heap'[values']) < total_candidates(heap[values])

C4_Terminates == <>(pc = "done") /\ [][C4_Decreases]_vars

C4_Witness ==
    /\ pc = "done"
    /\ Len(heap) > 3

C6_TwinsUntouched ==
    pc = "reduce" =>
        \A before \in {before_twins} : \A after \in {naked_twins(before, order)} :
            \A p \in twins_set(before) : \A t \in p : after[t] = before[t]

(* C6 as amended: naked_twins takes from a box exactly the values of the   *)
(* detected twin pairs that have the box among the common peers of their   *)
(* two boxes, and nothing else; neither box of a pair is a common peer of  *)
(* that pair, so a twin box loses values only as a common peer of another  *)
(* detected pair.                                                          *)
C6_OnlyCommonPeersLoseTwinValues ==
    pc = "reduce" =>
        \A before \in {before_twins} : \A after \in {naked_twins(before, order)} :
            \A tw \in {twins_set(before)} :
                /\ \A b \in boxes :
                       after[b] = before[b] \ UNION {before[Min(p)] :
                           p \in {q \in tw : b \in peers[Min(q)] \cap peers[Max(q)]}}
                /\ \A p \in tw : \A t \in p :
                       t \notin peers[Min(p)] \cap peers[Max(p)]

C6_Witness ==
    /\ pc = "reduce"
    /\ \E before \in {before_twins} : \E after \in {naked_twins(before, order)} :
           \E p \in twins_set(before) :
               /\ \A t \in p : after[t] = before[t]
               /\ \E b \in peers[Min(p)] \cap peers[Max(p)] :
                      /\ after[b] # before[b]
                      /\ after[b] = before[b] \ before[Min(p)]

(* C7: a second solve of the same grid returns what the first returned,    *)
(* whatever the set iteration orders of the two processes.                 *)
C7_SameResultTwice ==
    (run = 2 /\ pc = "done")
        => (Returned.kind = first.kind /\ Returned.board = first.board)

C7_Witness ==
    /\ run = 2
    /\ pc = "done"
    /\ first.order # order
    /\ attempt.kind = "dict"
    /\ Len(heap) > 2
    /\ Returned.board = first.board

(* C8: the box search branches on has more than one candidate and no box   *)
(* with more than one candidate has fewer; among those with as few it is   *)
(* the first in coordinate order.                                          *)
C8_BranchesOnFewestCandidates ==
    pc = "loop" =>
        LET vals == heap[values]
            n == Cardinality(vals[chosen_box])
        IN  /\ n > 1
            /\ \A b \in boxes : Cardinality(vals[b]) > 1 =>
                   \/ n < Cardinality(vals[b])
                   \/ (n = Cardinality(vals[b]) /\ chosen_box <= b)

(* C9: a board returned by reduce_puzzle is unchanged by one more          *)
(* application of eliminate, only_choice and naked_twins.                  *)
C9_ReducedIsFixedPoint ==
    (pc = "reduced" /\ ~sanity_fails(heap[values]))
        => reduce_pass(heap[values], order) = heap[values]

(* C10: a branch works on its own copy: no step changes the dictionary of  *)
(* a suspended caller, and a new branch starts from the caller's reduced   *)
(* board with only the chosen box set to the value tried.                  *)
C10_Step ==
    /\ \A i \in 1..Len(stack) :
           (i <= Len(stack') /\ stack'[i] = stack[i])
               => heap'[stack[i].values] = heap[stack[i].values]
    /\ (pc = "loop" /\ pc' = "reduce")
           => /\ values' # values
              /\ heap'[values] = heap[values]
              /\ heap'[values'] = [heap[values] EXCEPT ![chosen_box] = {Head(todo)}]
    /\ (pc = "return" /\ pc' = "loop")
           => heap'[values'] = heap[values']

C10_BranchIsolation == [][C10_Step]_vars

C10_Witness ==
    /\ pc = "loop"
    /\ ~truthy(attempt)
    /\ Len(heap) > values
    /\ todo # <<>>
    /\ Cardinality(heap[values][chosen_box]) > 1

====
